---- MODULE Spec2Model ----
(***************************************************************************)
(* Magomar Chat (src/chat.js): the retrying webhook client, the busy flag, *)
(* the message history and the reply extraction, as a state machine.       *)
(*                                                                         *)
(* JavaScript runs every handler to completion: one action of this module  *)
(* is one task of the event loop (an event handler, a timer callback, or   *)
(* the continuation of an async function after an await settles).          *)
(*                                                                         *)
(* Text is a sequence of one-character strings.  A JSON value is a record  *)
(* tagged by its JavaScript type.  The timestamp field of a history entry  *)
(* (Date.now()) is not modelled.                                           *)
(***************************************************************************)
EXTENDS Integers, Sequences, FiniteSets, TLC

VARIABLES
    maxRetries,          \* CONFIG.maxRetries, the configured retry limit
    sessionId,           \* let sessionId
    isLoading,           \* let isLoading
    messageHistory,      \* let messageHistory
    storedHistory,       \* sessionStorage item 'magomar_history'
    inputValue,          \* messageInput.value
    sendButtonDisabled,  \* sendButton.disabled
    typingVisible,       \* typingIndicator.classList has 'visible'
    toastVisible,        \* errorToast.classList has 'visible'
    hideTimers,          \* pending setTimeout(hideToast, 5000) callbacks
    sends,               \* the sendMessage call chains started by handleSubmit
    nsends,              \* how many of them have been started
    response,            \* argument of the extractReply call under test
    reply,               \* its result
    storedSessionId,     \* sessionStorage item 'magomar_session_id'
    generated,           \* how many session ids have been generated (line 95)
    loads,               \* how many times the page has been loaded again
    rejected,            \* how many times handleSubmit has returned at line 173
    formatInput,         \* argument of the formatMessage call under test
    formatted            \* its result

vars == <<maxRetries, sessionId, isLoading, messageHistory, storedHistory, inputValue,
          sendButtonDisabled, typingVisible, toastVisible, hideTimers,
          sends, nsends, response, reply,
          storedSessionId, generated, loads, rejected, formatInput, formatted>>

\* the page's storage and load count, and the formatter's call under test
pageVars == <<storedSessionId, generated, loads, rejected>>
formatVars == <<formatInput, formatted>>

-----------------------------------------------------------------------------
(* Bounds of the model *)

MaxSends == 2          \* sends started in one run
MaxRetryLimit == 3     \* configured retry limits explored: 0..MaxRetryLimit
MaxLoads == 2          \* page loads after the first
MaxRejected == 1       \* submits turned down by handleSubmit
MaxLen == 4            \* length of the texts formatted, every text up to it
MaxParas == 3          \* paragraphs of a formatted text
MaxLines == 3          \* lines of a formatted table text

(* Program constants *)

CONFIG_maxRetries == 3
CONFIG_retryDelay == 1000

SendIds == 1..MaxSends

-----------------------------------------------------------------------------
(* JSON values *)

JUndefined == [t |-> "undefined"]
JNull == [t |-> "null"]
JStr(s) == [t |-> "string", s |-> s]
JNum(n) == [t |-> "number", n |-> n]
JBool(b) == [t |-> "boolean", b |-> b]
JObj(f) == [t |-> "object", f |-> f]
JArr(a) == [t |-> "array", a |-> a]

\* no call made yet
Pending == [t |-> "pending"]

\* what an exception thrown inside the call looks like to its caller
Thrown(e) == [t |-> "thrown", e |-> e]

\* JavaScript truthiness, as tested by `||`, `&&` and `if (reply)`
Truthy(v) ==
    CASE v.t = "string" -> v.s # <<>>
      [] v.t = "number" -> v.n # 0
      [] v.t = "boolean" -> v.b
      [] v.t \in {"object", "array"} -> TRUE
      [] OTHER -> FALSE

\* a || b
Or(a, b) == IF Truthy(a) THEN a ELSE b

\* v.k for a value that is neither null nor undefined
Get(v, k) == IF v.t = "object" /\ k \in DOMAIN v.f THEN v.f[k] ELSE JUndefined

\* v?.k
OptGet(v, k) == IF v.t \in {"null", "undefined"} THEN JUndefined ELSE Get(v, k)

\* data[0]
First(v) == IF v.t = "array" /\ Len(v.a) > 0 THEN v.a[1] ELSE JUndefined

-----------------------------------------------------------------------------
(* Text *)

WhiteSpace == {" ", "\n", "\t"}

RECURSIVE trimStart(_)
trimStart(s) ==
    IF s # <<>> /\ Head(s) \in WhiteSpace THEN trimStart(Tail(s)) ELSE s

RECURSIVE trimEnd(_)
trimEnd(s) ==
    IF s # <<>> /\ s[Len(s)] \in WhiteSpace
    THEN trimEnd(SubSeq(s, 1, Len(s) - 1)) ELSE s

\* String.prototype.trim
trim(s) == trimEnd(trimStart(s))

-----------------------------------------------------------------------------
(* extractReply, lines 343-360 *)

ReplyKeys == <<"reply", "message", "text", "answer", "output", "response", "data">>

isArray(data) == JBool(data.t = "array")

\* a && b
And(a, b) == IF Truthy(a) THEN b ELSE a

\* faulty variant: text is probed before message
extractReplyTextFirst(data) ==
    IF data.t = "string" THEN data
    ELSE IF data.t \in {"null", "undefined"} THEN Thrown("TypeError")
    ELSE Or(Get(data, "reply"),
         Or(Get(data, "text"),
         Or(Get(data, "message"),
         Or(Get(data, "answer"),
         Or(Get(data, "output"),
         Or(Get(data, "response"),
         Or(Get(data, "data"),
         Or(And(isArray(data), OptGet(First(data), "reply")),
         Or(And(isArray(data), OptGet(OptGet(First(data), "json"), "reply")),
            JNull)))))))))

extractReply(data) ==
    IF data.t = "string" THEN data
    ELSE IF data.t \in {"null", "undefined"} THEN Thrown("TypeError")
    ELSE Or(Get(data, "reply"),
         Or(Get(data, "message"),
         Or(Get(data, "text"),
         Or(Get(data, "answer"),
         Or(Get(data, "output"),
         Or(Get(data, "response"),
         Or(Get(data, "data"),
         Or(And(isArray(data), OptGet(First(data), "reply")),
         Or(And(isArray(data), OptGet(OptGet(First(data), "json"), "reply")),
            JNull)))))))))

-----------------------------------------------------------------------------
(* The chat state *)

InputValues == { <<>>, <<" ">>, <<"a">>, <<" ", "b", " ">> }

\* bodies the webhook may answer with (response.json() of an ok response)
ResponseBodies ==
    { JStr(<<>>),
      JStr(<<"x">>),
      JNull,
      JObj(<<>>),
      JObj([message |-> JStr(<<"x">>), text |-> JStr(<<"y">>)]),
      JArr(<<JObj([json |-> JObj([reply |-> JStr(<<"y">>)])])>>) }

NoSend ==
    [pc |-> "Idle", await |-> "none", message |-> <<>>, retryCount |-> 0,
     requests |-> <<>>, waits |-> <<>>, failed |-> 0, cause |-> "none",
     toasts |-> 0, bots |-> 0, got |-> JUndefined, userAt |-> 0, botAt |-> 0]

\* faulty variant: the request carries the text of the input field
RequestOfInput(message) == [message |-> inputValue, sessionId |-> sessionId]

\* the request of one attempt, lines 293-302
Request(message) == [message |-> message, sessionId |-> sessionId]

\* faulty variant: one retry too many
CanRetryInclusive(retryCount) == retryCount <= maxRetries

\* faulty variant: gives up one attempt early
CanRetryOneShort(retryCount) == retryCount + 1 < maxRetries

\* line 323
CanRetry(retryCount) == retryCount < maxRetries

\* faulty variant: the delay doubles with every retry
BackoffDelayDoubling(retryCount) == CONFIG_retryDelay * (2 ^ retryCount)

\* faulty variant: the factor is the number of the attempt that follows the wait
BackoffDelayByAttempt(retryCount) == CONFIG_retryDelay * (retryCount + 2)

\* line 325
BackoffDelay(retryCount) == CONFIG_retryDelay * (retryCount + 1)

\* JSON.stringify of the history list (line 132): the entries' fields, one after
\* the other, in the order of the list
RECURSIVE stringify(_)
stringify(history) ==
    IF history = <<>> THEN <<>>
    ELSE <<[key |-> "content", value |-> Head(history).content],
           [key |-> "type", value |-> JStr(<<Head(history).type>>)]>>
         \o stringify(Tail(history))

\* no item stored under the key
NoItem == <<[key |-> "null", value |-> JNull]>>

\* lines 130-136, run after the push of line 211; a write the storage refuses
\* (ok = FALSE) throws, is caught and leaves the item as it was
saveMessageHistory(ok) ==
    storedHistory' = IF ok THEN stringify(messageHistory') ELSE storedHistory

\* faulty variant: the entry is put in front of the list
appendMessageInFront(content, type) ==
    /\ messageHistory' = <<[content |-> content, type |-> type]>> \o messageHistory
    /\ \E ok \in BOOLEAN : saveMessageHistory(ok)

\* lines 209-213 of appendMessage (save = true)
appendMessage(content, type) ==
    /\ messageHistory' = Append(messageHistory, [content |-> content, type |-> type])
    /\ \E ok \in BOOLEAN : saveMessageHistory(ok)

\* faulty variant: the flag is not reset
FinallyLeavesLoading ==
    /\ isLoading' = isLoading
    /\ typingVisible' = FALSE
    /\ sendButtonDisabled' = (Len(trim(inputValue)) = 0)

\* lines 332-337, the finally block of sendMessage
Finally ==
    /\ isLoading' = FALSE
    /\ typingVisible' = FALSE
    /\ sendButtonDisabled' = (Len(trim(inputValue)) = 0)

\* lines 389-396
showToast ==
    /\ toastVisible' = TRUE
    /\ hideTimers' = hideTimers + 1

\* lines 401-403, run by the timer showToast set
hideToast ==
    /\ hideTimers > 0
    /\ hideTimers' = hideTimers - 1
    /\ toastVisible' = FALSE
    /\ UNCHANGED <<pageVars, formatVars, maxRetries, sessionId, isLoading, messageHistory, storedHistory,
                   inputValue, sendButtonDisabled, typingVisible, sends, nsends, response, reply>>

\* line 95: 'session_' followed by the time and a random suffix; the n-th id
\* generated differs from all the earlier ones
FreshId(n) == [i \in 1..n |-> "s"]

\* the formatter has not been called
NotFormatted == <<"?">>

\* the state when init (lines 30-50) has run in a fresh session; the retry limit
\* is any configured value, and the send button starts as the page's markup has it
Init ==
    /\ maxRetries \in 0..MaxRetryLimit
    /\ sessionId = FreshId(1)
    /\ isLoading = FALSE
    /\ messageHistory = <<>>
    /\ storedHistory = NoItem
    /\ inputValue = <<>>
    /\ sendButtonDisabled \in BOOLEAN
    /\ typingVisible = FALSE
    /\ toastVisible = FALSE
    /\ hideTimers = 0
    /\ sends = [s \in SendIds |-> NoSend]
    /\ nsends = 0
    /\ response = JUndefined
    /\ reply = Pending
    /\ storedSessionId = JStr(sessionId)
    /\ generated = 1
    /\ loads = 0
    /\ rejected = 0
    /\ formatInput = <<>>
    /\ formatted = NotFormatted

\* lines 141-149: the user edits the text
handleInput(v) ==
    /\ v # inputValue
    /\ inputValue' = v
    /\ sendButtonDisabled' = (~(Len(trim(v)) > 0) \/ isLoading)
    /\ UNCHANGED <<pageVars, formatVars, maxRetries, sessionId, isLoading, messageHistory, storedHistory,
                   typingVisible, toastVisible, hideTimers, sends, nsends, response, reply>>

\* lines 167-186, with the synchronous start of sendMessage(message), lines 288-302
handleSubmit ==
    LET message == trim(inputValue) IN
    /\ ~(message = <<>> \/ isLoading)
    /\ nsends < MaxSends
    /\ inputValue' = <<>>
    /\ sendButtonDisabled' = TRUE
    /\ appendMessage(JStr(message), "user")
    /\ isLoading' = TRUE
    /\ typingVisible' = TRUE
    /\ nsends' = nsends + 1
    /\ sends' = [sends EXCEPT ![nsends + 1] =
                    [NoSend EXCEPT !.pc = "Attempting", !.await = "fetch",
                                   !.message = message,
                                   !.userAt = Len(messageHistory) + 1,
                                   !.requests = <<Request(message)>>]]
    /\ UNCHANGED <<pageVars, formatVars, maxRetries, sessionId, toastVisible, hideTimers, response, reply>>

\* lines 154-162: Enter without Shift
handleKeydown ==
    /\ ~sendButtonDisabled
    /\ handleSubmit

\* the form's submit event, raised by the send button (line 38)
submitClick ==
    /\ ~sendButtonDisabled
    /\ handleSubmit

\* faulty variant: the retry is issued at once, without the backoff wait
ScheduleRetryNoWait(s, cause) ==
    /\ sends' = [sends EXCEPT ![s].await = "fetch",
                              ![s].failed = @ + 1, ![s].cause = "none",
                              ![s].retryCount = @ + 1,
                              ![s].requests = Append(@, Request(sends[s].message))]
    /\ UNCHANGED <<pageVars, formatVars, maxRetries, sessionId, isLoading, messageHistory, storedHistory,
                   inputValue, sendButtonDisabled, typingVisible, toastVisible, hideTimers,
                   nsends, response, reply>>

\* lines 324-325: the frame that caught `cause` starts the backoff wait
ScheduleRetry(s, cause) ==
    /\ sends' = [sends EXCEPT ![s].pc = "RetryWait", ![s].await = "delay",
                              ![s].failed = @ + 1, ![s].cause = cause,
                              ![s].waits = Append(@, BackoffDelay(sends[s].retryCount))]
    /\ UNCHANGED <<pageVars, formatVars, maxRetries, sessionId, isLoading, messageHistory, storedHistory,
                   inputValue, sendButtonDisabled, typingVisible, toastVisible, hideTimers,
                   nsends, response, reply>>

\* lines 329-337: no retry is left; the toast is shown and the finally block runs
GiveUp(s, cause) ==
    /\ sends' = [sends EXCEPT ![s].pc = "Exhausted", ![s].await = "none",
                              ![s].failed = @ + 1, ![s].cause = cause,
                              ![s].toasts = @ + 1]
    /\ showToast
    /\ Finally
    /\ UNCHANGED <<pageVars, formatVars, maxRetries, sessionId, messageHistory, storedHistory, inputValue,
                   nsends, response, reply>>

\* faulty variant: an empty reply is not retried
CatchEmptyIsFatal(s, cause) ==
    IF cause # "EmptyResponse" /\ CanRetry(sends[s].retryCount)
    THEN ScheduleRetry(s, cause)
    ELSE GiveUp(s, cause)

\* lines 319-337: the catch block of the frame with this retryCount, and its finally;
\* cause is the error this frame caught (the frame of the next attempt has caught none)
Catch(s, cause) ==
    IF CanRetry(sends[s].retryCount)
    THEN ScheduleRetry(s, cause)
    ELSE GiveUp(s, cause)

\* line 293: fetch rejects (transport failure)
FetchReject(s) ==
    /\ sends[s].pc = "Attempting" /\ sends[s].await = "fetch"
    /\ Catch(s, "TransportError")

\* lines 293-308: fetch resolves; a status outside 200-299 throws, an ok one is decoded
FetchResolve(s, ok) ==
    /\ sends[s].pc = "Attempting" /\ sends[s].await = "fetch"
    /\ IF ok
       THEN /\ sends' = [sends EXCEPT ![s].await = "json"]
            /\ UNCHANGED <<pageVars, formatVars, maxRetries, sessionId, isLoading, messageHistory, storedHistory,
                           inputValue, sendButtonDisabled, typingVisible, toastVisible, hideTimers,
                           nsends, response, reply>>
       ELSE Catch(s, "HttpError")

\* line 308: response.json() rejects (the body is not JSON)
JsonReject(s) ==
    /\ sends[s].pc = "Attempting" /\ sends[s].await = "json"
    /\ Catch(s, "SyntaxError")

\* faulty variant: the attempt is counted as failed after its reply has been appended
JsonResolveRetriesAfterAppend(s, data) ==
    /\ sends[s].pc = "Attempting" /\ sends[s].await = "json"
    /\ LET r == extractReply(data) IN
       IF r.t = "thrown" THEN Catch(s, r.e)
       ELSE IF Truthy(r) /\ CanRetry(sends[s].retryCount)
       THEN /\ appendMessage(r, "bot")
            /\ sends' = [sends EXCEPT ![s].pc = "RetryWait", ![s].await = "delay",
                                      ![s].bots = @ + 1, ![s].got = r,
                                      ![s].botAt = Len(messageHistory) + 1,
                                      ![s].failed = @ + 1, ![s].cause = "TypeError",
                                      ![s].waits = Append(@, BackoffDelay(sends[s].retryCount))]
            /\ UNCHANGED <<pageVars, formatVars, maxRetries, sessionId, isLoading, inputValue,
                           sendButtonDisabled, typingVisible, toastVisible, hideTimers,
                           nsends, response, reply>>
       ELSE IF Truthy(r)
       THEN /\ appendMessage(r, "bot")
            /\ sends' = [sends EXCEPT ![s].pc = "Success", ![s].await = "none",
                                      ![s].bots = @ + 1, ![s].got = r,
                                      ![s].botAt = Len(messageHistory) + 1]
            /\ Finally
            /\ UNCHANGED <<pageVars, formatVars, maxRetries, sessionId, inputValue, toastVisible, hideTimers,
                           nsends, response, reply>>
       ELSE Catch(s, "EmptyResponse")

\* lines 308-317: response.json() resolves with data
JsonResolve(s, data) ==
    /\ sends[s].pc = "Attempting" /\ sends[s].await = "json"
    /\ LET r == extractReply(data) IN
       IF r.t = "thrown" THEN Catch(s, r.e)
       ELSE IF Truthy(r)
       THEN /\ appendMessage(r, "bot")
            /\ sends' = [sends EXCEPT ![s].pc = "Success", ![s].await = "none",
                                      ![s].bots = @ + 1, ![s].got = r,
                                      ![s].botAt = Len(messageHistory) + 1]
            /\ Finally
            /\ UNCHANGED <<pageVars, formatVars, maxRetries, sessionId, inputValue, toastVisible, hideTimers,
                           nsends, response, reply>>
       ELSE Catch(s, "EmptyResponse")

\* faulty variant: the retry is not returned, so the frame falls through to the toast
DelayElapsedFallsThrough(s) ==
    /\ sends[s].pc = "RetryWait" /\ sends[s].await = "delay"
    /\ sends' = [sends EXCEPT ![s].pc = "Exhausted", ![s].await = "none",
                              ![s].toasts = @ + 1]
    /\ showToast
    /\ Finally
    /\ UNCHANGED <<pageVars, formatVars, maxRetries, sessionId, messageHistory, storedHistory, inputValue,
                   nsends, response, reply>>

\* lines 325-326 and 332-337: the backoff timer fires; sendMessage(message,
\* retryCount + 1) runs to its fetch (lines 289-302, isLoading = true) and
\* returns its promise, then the finally block of the outer frame runs
DelayElapsed(s) ==
    /\ sends[s].pc = "RetryWait" /\ sends[s].await = "delay"
    /\ sends' = [sends EXCEPT ![s].pc = "Attempting", ![s].await = "fetch",
                              ![s].retryCount = @ + 1, ![s].cause = "none",
                              ![s].requests = Append(@, Request(sends[s].message))]
    /\ Finally
    /\ UNCHANGED <<pageVars, formatVars, maxRetries, sessionId, messageHistory, storedHistory, inputValue,
                   toastVisible, hideTimers, nsends, response, reply>>

Next ==
    \/ \E v \in InputValues : handleInput(v)
    \/ handleKeydown
    \/ submitClick
    \/ \E s \in SendIds : FetchReject(s)
    \/ \E s \in SendIds, ok \in BOOLEAN : FetchResolve(s, ok)
    \/ \E s \in SendIds : JsonReject(s)
    \/ \E s \in SendIds, data \in ResponseBodies : JsonResolve(s, data)
    \/ \E s \in SendIds : DelayElapsed(s)
    \/ hideToast

Spec == Init /\ [][Next]_vars

\* every request eventually settles and every backoff timer eventually fires
FairSpec ==
    /\ Spec
    /\ \A s \in SendIds :
        /\ WF_vars(FetchReject(s) \/ \E ok \in BOOLEAN : FetchResolve(s, ok))
        /\ WF_vars(JsonReject(s) \/ \E data \in ResponseBodies : JsonResolve(s, data))
        /\ WF_vars(DelayElapsed(s))

-----------------------------------------------------------------------------
(* Page loads: sessionStorage outlives the page, the script's variables,   *)
(* its pending requests and its timers do not.                             *)

\* JSON.parse of a stored history (line 110), the inverse of stringify
RECURSIVE parse(_)
parse(stored) ==
    IF Len(stored) < 2 THEN <<>>
    ELSE <<[content |-> stored[1].value, type |-> stored[2].value.s[1]]>>
         \o parse(SubSeq(stored, 3, Len(stored)))

\* lines 90-100 with the assignment of line 32; item is what getItem returns
getOrCreateSessionId(item) ==
    IF ~Truthy(item)
    THEN /\ generated' = generated + 1
         /\ storedSessionId' = JStr(FreshId(generated + 1))
         /\ sessionId' = FreshId(generated + 1)
    ELSE /\ sessionId' = item.s
         /\ storedSessionId' = item
         /\ generated' = generated

\* faulty variant: the restored entries are appended with save = true
restoreMessageHistoryResaves(stored) ==
    /\ messageHistory' = IF stored # NoItem THEN parse(stored) \o parse(stored) ELSE <<>>
    /\ storedHistory' = IF stored # NoItem THEN stringify(messageHistory') ELSE stored

\* lines 105-125 on the empty list of line 17; stored is what getItem returns.
\* The entries are rendered with save = false, which neither pushes nor saves.
restoreMessageHistory(stored) ==
    /\ messageHistory' = IF stored # NoItem THEN parse(stored) ELSE <<>>
    /\ storedHistory' = stored

\* lines 14-17 and 30-50: the script starts again on a storage holding these two
\* items.  The call chains, requests and timers of the page before are gone
\* with it (their slots are not used again); the browser may bring the button
\* back enabled or disabled, as at the first load.
init(idItem, historyItem) ==
    /\ loads < MaxLoads
    /\ loads' = loads + 1
    /\ getOrCreateSessionId(idItem)
    /\ restoreMessageHistory(historyItem)
    /\ isLoading' = FALSE
    /\ inputValue' = <<>>
    /\ sendButtonDisabled' \in BOOLEAN
    /\ typingVisible' = FALSE
    /\ toastVisible' = FALSE
    /\ hideTimers' = 0
    /\ sends' = [s \in SendIds |->
                    IF s <= nsends THEN [NoSend EXCEPT !.pc = "Unloaded"] ELSE NoSend]
    /\ UNCHANGED <<formatVars, maxRetries, nsends, rejected, response, reply>>

\* the user reloads the page
Reload == init(storedSessionId, storedHistory)

\* lines 415-419: both items are removed, then the page is reloaded
clearHistory == init(JNull, NoItem)

NextSession ==
    \/ Next
    \/ Reload
    \/ clearHistory

\* the page as configured (line 9)
InitSession ==
    /\ Init
    /\ maxRetries = CONFIG_maxRetries

SpecSession == InitSession /\ [][NextSession]_vars

\* faulty variant: the input is cleared before the guard is looked at
handleSubmitReturnsCleared ==
    /\ trim(inputValue) = <<>> \/ isLoading
    /\ rejected < MaxRejected
    /\ rejected' = rejected + 1
    /\ inputValue' = <<>>
    /\ sendButtonDisabled' = TRUE
    /\ UNCHANGED <<storedSessionId, generated, loads, formatVars, maxRetries, sessionId,
                   isLoading, messageHistory, storedHistory, typingVisible, toastVisible,
                   hideTimers, sends, nsends, response, reply>>

\* lines 168-174: a submit event that handleSubmit turns down.  The event can
\* reach the form by other ways than the two above (a script, a form control).
handleSubmitReturns ==
    /\ trim(inputValue) = <<>> \/ isLoading
    /\ rejected < MaxRejected
    /\ rejected' = rejected + 1
    /\ UNCHANGED <<storedSessionId, generated, loads, formatVars, maxRetries, sessionId,
                   isLoading, messageHistory, storedHistory, inputValue, sendButtonDisabled,
                   typingVisible, toastVisible, hideTimers, sends, nsends, response, reply>>

NextSubmit ==
    \/ Next
    \/ handleSubmitReturns

SpecSubmit == Init /\ [][NextSubmit]_vars

-----------------------------------------------------------------------------
(* formatMessage, lines 219-242, with escapeHtml and convertToTable.  A    *)
(* text is the sequence of its characters; the markup the formatter writes *)
(* is text too, so a tag in the result is a run of characters of it.       *)

LT == "<"
PIPE == <<"|">>
NL == <<"\n">>
BLANKLINE == <<"\n", "\n">>
STARS == <<"*", "*">>
BR == <<"<", "b", "r", ">">>
P_OPEN == <<"<", "p", ">">>
P_CLOSE == <<"<", "/", "p", ">">>
LI_OPEN == <<"<", "l", "i", ">">>
LI_CLOSE == <<"<", "/", "l", "i", ">">>
UL_OPEN == <<"<", "u", "l", ">">>
UL_CLOSE == <<"<", "/", "u", "l", ">">>
STRONG_OPEN == <<"<", "s", "t", "r", "o", "n", "g", ">">>
STRONG_CLOSE == <<"<", "/", "s", "t", "r", "o", "n", "g", ">">>
TABLE_OPEN == <<"<", "t", "a", "b", "l", "e", ">">>
TABLE_CLOSE == <<"<", "/", "t", "a", "b", "l", "e", ">">>
TR_OPEN == <<"<", "t", "r", ">">>
TR_CLOSE == <<"<", "/", "t", "r", ">">>

\* the character class of line 230 as the file has it: the dash and the three
\* characters U+00E2, U+20AC, U+00A2 (the bullet U+2022 is not among them)
BulletClass == {"-", "U+00E2", "U+20AC", "U+00A2"}

\* String.prototype.indexOf: the first position from `from` on where pat
\* occurs in s, 0 when there is none
RECURSIVE indexOf(_, _, _)
indexOf(s, pat, from) ==
    IF from + Len(pat) - 1 > Len(s) THEN 0
    ELSE IF SubSeq(s, from, from + Len(pat) - 1) = pat THEN from
    ELSE indexOf(s, pat, from + 1)

\* String.prototype.lastIndexOf: the last position up to `from`, 0 when none
RECURSIVE lastIndexOf(_, _, _)
lastIndexOf(s, pat, from) ==
    IF from < 1 THEN 0
    ELSE IF from + Len(pat) - 1 <= Len(s) /\ SubSeq(s, from, from + Len(pat) - 1) = pat
    THEN from
    ELSE lastIndexOf(s, pat, from - 1)

\* String.prototype.includes
includes(s, pat) == indexOf(s, pat, 1) # 0

\* String.prototype.split with a non-empty separator
RECURSIVE split(_, _)
split(s, sep) ==
    LET i == indexOf(s, sep, 1) IN
    IF i = 0 THEN <<s>>
    ELSE <<SubSeq(s, 1, i - 1)>> \o split(SubSeq(s, i + Len(sep), Len(s)), sep)

\* Array.prototype.join('')
RECURSIVE join(_)
join(parts) == IF parts = <<>> THEN <<>> ELSE Head(parts) \o join(Tail(parts))

\* String.prototype.replace with a global pattern that is a fixed text
RECURSIVE replaceAll(_, _, _)
replaceAll(s, pat, by) ==
    LET i == indexOf(s, pat, 1) IN
    IF i = 0 THEN s
    ELSE SubSeq(s, 1, i - 1) \o by \o replaceAll(SubSeq(s, i + Len(pat), Len(s)), pat, by)

\* the serialization of one character of a text node (innerHTML, line 250)
Entity(c) ==
    CASE c = "&" -> <<"&", "a", "m", "p", ";">>
      [] c = "<" -> <<"&", "l", "t", ";">>
      [] c = ">" -> <<"&", "g", "t", ";">>
      [] OTHER -> <<c>>

\* faulty variant: the less-than sign is left as it is
RECURSIVE escapeHtmlKeepsLt(_)
escapeHtmlKeepsLt(text) ==
    IF text = <<>> THEN <<>>
    ELSE (IF Head(text) = "<" THEN <<"<">> ELSE Entity(Head(text)))
         \o escapeHtmlKeepsLt(Tail(text))

\* lines 247-251
RECURSIVE escapeHtml(_)
escapeHtml(text) ==
    IF text = <<>> THEN <<>> ELSE Entity(Head(text)) \o escapeHtml(Tail(text))

\* lines 225-228: paragraphs at blank lines, <br> for the line breaks left
paragraphs(text) ==
    LET paras == split(text, BLANKLINE) IN
    join([n \in 1..Len(paras) |-> P_OPEN \o replaceAll(paras[n], NL, BR) \o P_CLOSE])

\* \s* from position i on: the position after the run of white space
RECURSIVE skipSpace(_, _)
skipSpace(s, i) ==
    IF i <= Len(s) /\ s[i] \in WhiteSpace THEN skipSpace(s, i + 1) ELSE i

(* Line 227 leaves no "\n" in the text, and the texts of this model hold no  *)
(* other line terminator, so the dot of the patterns of lines 230-234       *)
(* matches every character.                                                 *)

\* the leftmost position from i on where /<p>[-...]\s*(.*?)<\/p>/ matches
RECURSIVE bulletMatch(_, _)
bulletMatch(s, i) ==
    IF i + 3 > Len(s) THEN 0
    ELSE IF /\ SubSeq(s, i, i + 2) = P_OPEN
            /\ s[i + 3] \in BulletClass
            /\ LET k == skipSpace(s, i + 4)
                   j == indexOf(s, P_CLOSE, k)
               IN  j # 0
    THEN i
    ELSE bulletMatch(s, i + 1)

\* line 230: every match becomes <li>$1</li>, $1 being the lazy group
RECURSIVE replaceBullets(_)
replaceBullets(s) ==
    LET i == bulletMatch(s, 1) IN
    IF i = 0 THEN s
    ELSE LET k == skipSpace(s, i + 4)
             j == indexOf(s, P_CLOSE, k)
         IN  SubSeq(s, 1, i - 1) \o LI_OPEN \o SubSeq(s, k, j - 1) \o LI_CLOSE
             \o replaceBullets(SubSeq(s, j + 4, Len(s)))

\* faulty variant: every item gets a list of its own
wrapEachItem(s) ==
    replaceAll(replaceAll(s, LI_OPEN, UL_OPEN \o LI_OPEN), LI_CLOSE, LI_CLOSE \o UL_CLOSE)

\* line 231, /(<li>.*<\/li>)+/g: the greedy .* runs from the first <li> to the
\* last </li> of the line, whatever lies between them, and the text has one
\* line only (line 227 has left no line break), so there is at most one match
wrapList(s) ==
    LET i == indexOf(s, LI_OPEN, 1)
        j == lastIndexOf(s, LI_CLOSE, Len(s))
    IN  IF i = 0 \/ j < i + 4 THEN s
        ELSE SubSeq(s, 1, i - 1) \o UL_OPEN \o SubSeq(s, i, j + 4) \o UL_CLOSE
             \o SubSeq(s, j + 5, Len(s))

\* line 234, /\*\*(.*?)\*\*/g: from the leftmost ** to the nearest ** after it
RECURSIVE replaceBold(_)
replaceBold(s) ==
    LET i == indexOf(s, STARS, 1)
        j == IF i = 0 THEN 0 ELSE indexOf(s, STARS, i + 2)
    IN  IF j = 0 THEN s
        ELSE SubSeq(s, 1, i - 1) \o STRONG_OPEN \o SubSeq(s, i + 2, j - 1) \o STRONG_CLOSE
             \o replaceBold(SubSeq(s, j + 2, Len(s)))

\* line 264, /^\|[\s-|]+\|$/: a pipe, then white space, dashes and pipes, then
\* a pipe, and nothing else
isSeparator(line) ==
    /\ Len(line) >= 3
    /\ line[1] = "|"
    /\ line[Len(line)] = "|"
    /\ \A m \in 2..(Len(line) - 1) : line[m] \in WhiteSpace \cup {"-", "|"}

\* line 266: the cells of a line that are not blank
cellsOf(line) ==
    LET NotBlank(cell) == trim(cell) # <<>>
    IN  SelectSeq(split(line, PIPE), NotBlank)

\* lines 262-276 for one line; index counts the lines that hold a pipe
rowHtml(line, index) ==
    LET cells == cellsOf(line)
        tag == IF index = 0 THEN <<"t", "h">> ELSE <<"t", "d">>
    IN  IF isSeparator(line) \/ cells = <<>> THEN <<>>
        ELSE TR_OPEN
             \o join([c \in 1..Len(cells) |->
                        <<"<">> \o tag \o <<">">> \o trim(cells[c])
                        \o <<"<", "/">> \o tag \o <<">">>])
             \o TR_CLOSE

\* lines 260-278
tableHtml(lines) ==
    TABLE_OPEN \o join([n \in 1..Len(lines) |-> rowHtml(lines[n], n - 1)]) \o TABLE_CLOSE

\* [^<]+ from position i on: the position after the run, i when it is empty
RECURSIVE skipText(_, _)
skipText(s, i) ==
    IF i <= Len(s) /\ s[i] # LT THEN skipText(s, i + 1) ELSE i

\* \|[^<]+<br> at position i: the position after it, 0 when it does not match
segmentEnd(s, i) ==
    IF i + 1 <= Len(s) /\ s[i] = "|" /\ s[i + 1] # LT
    THEN LET e == skipText(s, i + 1) IN
         IF e + 3 <= Len(s) /\ SubSeq(s, e, e + 3) = BR THEN e + 4 ELSE 0
    ELSE 0

\* (\|[^<]+<br>)+ taken greedily from i on: the position after the last of the
\* segments that follow one another, i when there is none
RECURSIVE segmentsEnd(_, _)
segmentsEnd(s, i) ==
    LET e == segmentEnd(s, i) IN
    IF e = 0 THEN i ELSE segmentsEnd(s, e)

\* the position after the last but one of these segments
RECURSIVE segmentsBefore(_, _)
segmentsBefore(s, i) ==
    LET e == segmentEnd(s, i) IN
    IF segmentEnd(s, e) = 0 THEN i ELSE segmentsBefore(s, e)

\* (\|[^<]+)(<\/p>)? at position i: the position after it, 0 when no match
lastLineEnd(s, i) ==
    IF i + 1 <= Len(s) /\ s[i] = "|" /\ s[i + 1] # LT
    THEN LET e == skipText(s, i + 1) IN
         IF e + 3 <= Len(s) /\ SubSeq(s, e, e + 3) = P_CLOSE THEN e + 4 ELSE e
    ELSE 0

\* line 282, /(<p>)?(\|[^<]+<br>)+(\|[^<]+)(<\/p>)?/ at position i: the
\* position after the match, 0 when there is none.  When nothing matches the
\* last line after the longest run of segments, the run gives its last segment
\* back and that segment, without its <br>, is matched as the last line.
tableMatchEnd(s, i) ==
    LET first == IF i + 2 <= Len(s) /\ SubSeq(s, i, i + 2) = P_OPEN THEN i + 3 ELSE i
        q == segmentsEnd(s, first)
    IN  IF q = first THEN 0
        ELSE IF lastLineEnd(s, q) # 0 THEN lastLineEnd(s, q)
        ELSE IF segmentsBefore(s, first) # first
        THEN lastLineEnd(s, segmentsBefore(s, first))
        ELSE 0

\* the leftmost position from i on where the pattern of line 282 matches
RECURSIVE tableMatch(_, _)
tableMatch(s, i) ==
    IF i > Len(s) THEN 0
    ELSE IF tableMatchEnd(s, i) # 0 THEN i
    ELSE tableMatch(s, i + 1)

\* line 282: every match is replaced by the table
RECURSIVE replaceTables(_, _)
replaceTables(s, table) ==
    LET i == tableMatch(s, 1) IN
    IF i = 0 THEN s
    ELSE SubSeq(s, 1, i - 1) \o table
         \o replaceTables(SubSeq(s, tableMatchEnd(s, i), Len(s)), table)

\* lines 256-283
convertToTable(text) ==
    LET HasPipe(line) == includes(line, PIPE)
        lines == SelectSeq(split(text, BR), HasPipe)
    IN  IF Len(lines) < 2 THEN text
        ELSE replaceTables(text, tableHtml(lines))

\* lines 219-242
formatMessage(content) ==
    LET listed == wrapList(replaceBullets(paragraphs(escapeHtml(content))))
        bold == replaceBold(listed)
    IN  IF includes(bold, PIPE) /\ includes(bold, BR)
        THEN convertToTable(bold)
        ELSE bold

-----------------------------------------------------------------------------
(* formatMessage on its own: the text is drawn from FormatInputs and the   *)
(* function is applied to it once.                                          *)

Chars == {"-", " ", "\n", "|", "*", "<", ">", "&", "a"}

\* every text of up to MaxLen of these characters
ShortTexts == UNION { [1..n -> Chars] : n \in 0..MaxLen }

\* parts joined with a separator between them
RECURSIVE joinWith(_, _)
joinWith(parts, sep) ==
    IF Len(parts) = 0 THEN <<>>
    ELSE IF Len(parts) = 1 THEN parts[1]
    ELSE parts[1] \o sep \o joinWith(Tail(parts), sep)

ListItems == { <<"a">>,
      <<"b">>,
      <<"c">> }

DashParagraph(item) == <<"-", " ">> \o item

Paragraphs ==
    { DashParagraph(item) : item \in ListItems } \cup { <<"m">>,
      <<"*", "*", "m", "*", "*">> }

\* up to MaxParas of these paragraphs with a blank line between them
ParagraphTexts ==
    { joinWith(paras, BLANKLINE) :
        paras \in UNION { [1..n -> Paragraphs] : n \in 1..MaxParas } }

TableLines == { <<"a", "|", "b">>,
      <<"-", "-", "-", "|", "-", "-", "-">>,
      <<"1", "|", "2">>,
      <<"|", "a", "|", "b", "|">>,
      <<"|", "-", "-", "-", "|", "-", "-", "-", "|">>,
      <<"|", "1", "|", "2", "|">> }

\* up to MaxLines of these lines, one below the other
TableTexts ==
    { joinWith(lines, NL) :
        lines \in UNION { [1..n -> TableLines] : n \in 1..MaxLines } }

FormatInputs == ShortTexts \cup ParagraphTexts \cup TableTexts

InitFormat ==
    /\ maxRetries = CONFIG_maxRetries
    /\ sessionId = FreshId(1)
    /\ isLoading = FALSE
    /\ messageHistory = <<>>
    /\ storedHistory = NoItem
    /\ inputValue = <<>>
    /\ sendButtonDisabled = TRUE
    /\ typingVisible = FALSE
    /\ toastVisible = FALSE
    /\ hideTimers = 0
    /\ sends = [s \in SendIds |-> NoSend]
    /\ nsends = 0
    /\ response = JUndefined
    /\ reply = Pending
    /\ storedSessionId = JStr(sessionId)
    /\ generated = 1
    /\ loads = 0
    /\ rejected = 0
    /\ formatInput \in FormatInputs
    /\ formatted = NotFormatted

\* line 204: formatMessage(content)
Format ==
    /\ formatted = NotFormatted
    /\ formatted' = formatMessage(formatInput)
    /\ UNCHANGED <<pageVars, formatInput, maxRetries, sessionId, isLoading, messageHistory,
                   storedHistory, inputValue, sendButtonDisabled, typingVisible,
                   toastVisible, hideTimers, sends, nsends, response, reply>>

NextFormat == Format

SpecFormat == InitFormat /\ [][NextFormat]_vars

-----------------------------------------------------------------------------
(* extractReply on its own: the payload is drawn from Payloads and the     *)
(* function is applied to it once.                                          *)

KeySet == {ReplyKeys[i] : i \in 1..Len(ReplyKeys)}

\* objects holding any subset of the probed keys, each key either with an empty
\* string or with a text that names the key
KeyedObjects ==
    { JObj([k \in P |-> IF k \in T THEN JStr(<<k>>) ELSE JStr(<<>>)]) :
        <<P, T>> \in { pt \in (SUBSET KeySet) \X (SUBSET KeySet) : pt[2] \subseteq pt[1] } }

\* values of other types under the probed keys
TypedObjects ==
    { JObj([message |-> JStr(<<"x">>), text |-> JStr(<<"y">>)]),
      JObj([reply |-> JNum(0), message |-> JNum(5), text |-> JStr(<<"y">>)]),
      JObj([reply |-> JNull, answer |-> JBool(FALSE), output |-> JBool(TRUE)]),
      JObj([text |-> JObj(<<>>), data |-> JStr(<<"d">>)]),
      JObj([response |-> JArr(<<>>), data |-> JStr(<<"d">>)]),
      JObj([json |-> JObj([reply |-> JStr(<<"j">>)])]),
      JObj([other |-> JStr(<<"o">>)]) }

JsonFields ==
    { JUndefined, JNull, JStr(<<"j">>), JObj(<<>>),
      JObj([reply |-> JStr(<<>>)]), JObj([reply |-> JStr(<<"jr">>)]) }

\* an element object with the fields given (JUndefined: the field is absent)
ElementObject(r, j, m) ==
    JObj([k \in (IF r.t # "undefined" THEN {"reply"} ELSE {})
                \cup (IF j.t # "undefined" THEN {"json"} ELSE {})
                \cup (IF m THEN {"message"} ELSE {}) |->
            CASE k = "reply" -> r [] k = "json" -> j [] OTHER -> JStr(<<"m">>)])

\* first elements of an array payload
Elements ==
    { JNull, JStr(<<"e">>), JNum(7) } \cup
    { ElementObject(rjm[1], rjm[2], rjm[3]) :
        rjm \in {JUndefined, JStr(<<>>), JStr(<<"r">>)} \X JsonFields \X BOOLEAN }

Arrays ==
    { JArr(<<>>) } \cup { JArr(<<e>>) : e \in Elements }
    \cup { JArr(<<JNull, JObj([reply |-> JStr(<<"second">>)])>>) }

Primitives ==
    { JStr(<<>>), JStr(<<"x">>), JNum(0), JNum(5), JBool(TRUE), JBool(FALSE), JNull }

Payloads == Primitives \cup KeyedObjects \cup TypedObjects \cup Arrays

InitExtract ==
    /\ maxRetries = CONFIG_maxRetries
    /\ sessionId = <<"s">>
    /\ isLoading = FALSE
    /\ messageHistory = <<>>
    /\ storedHistory = NoItem
    /\ inputValue = <<>>
    /\ sendButtonDisabled = TRUE
    /\ typingVisible = FALSE
    /\ toastVisible = FALSE
    /\ hideTimers = 0
    /\ sends = [s \in SendIds |-> NoSend]
    /\ nsends = 0
    /\ response \in Payloads
    /\ reply = Pending
    /\ storedSessionId = JStr(sessionId)
    /\ generated = 1
    /\ loads = 0
    /\ rejected = 0
    /\ formatInput = <<>>
    /\ formatted = NotFormatted

\* line 311: const reply = extractReply(data)
Extract ==
    /\ reply = Pending
    /\ reply' = extractReply(response)
    /\ UNCHANGED <<pageVars, formatVars, maxRetries, sessionId, isLoading, messageHistory, storedHistory,
                   inputValue, sendButtonDisabled, typingVisible, toastVisible, hideTimers,
                   sends, nsends, response>>

NextExtract == Extract

SpecExtract == InitExtract /\ [][NextExtract]_vars

-----------------------------------------------------------------------------
(* C9: extractReply returns a string payload as is; otherwise the value of  *)
(* the first key of reply, message, text, answer, output, response, data    *)
(* that holds a usable (truthy) value; otherwise the first array element's  *)
(* reply; otherwise the first array element's json.reply; otherwise no      *)
(* reply (null, or a TypeError when the payload itself is null).            *)

\* positions in the declared order whose key holds a usable value
UsableAt(data) ==
    { i \in 1..Len(ReplyKeys) :
        /\ data.t = "object"
        /\ ReplyKeys[i] \in DOMAIN data.f
        /\ Truthy(data.f[ReplyKeys[i]]) }

FirstUsable(data) ==
    CHOOSE i \in UsableAt(data) : \A j \in UsableAt(data) : i <= j

ElementReply(data) ==
    IF data.t = "array" /\ Len(data.a) > 0 /\ data.a[1].t = "object"
       /\ "reply" \in DOMAIN data.a[1].f
    THEN data.a[1].f["reply"] ELSE JUndefined

ElementJsonReply(data) ==
    IF data.t = "array" /\ Len(data.a) > 0 /\ data.a[1].t = "object"
       /\ "json" \in DOMAIN data.a[1].f /\ data.a[1].f["json"].t = "object"
       /\ "reply" \in DOMAIN data.a[1].f["json"].f
    THEN data.a[1].f["json"].f["reply"] ELSE JUndefined

C9_ProbeOrder ==
    reply # Pending =>
        IF response.t = "string" THEN reply = response
        ELSE IF UsableAt(response) # {}
             THEN reply = response.f[ReplyKeys[FirstUsable(response)]]
        ELSE IF Truthy(ElementReply(response)) THEN reply = ElementReply(response)
        ELSE IF Truthy(ElementJsonReply(response))
             THEN reply = ElementJsonReply(response)
        ELSE IF response.t = "null" THEN reply = Thrown("TypeError")
        ELSE reply = JNull

\* the spec's example { message: "x", text: "y" } has been extracted to "x"
C9_Witness ==
    /\ response = JObj([message |-> JStr(<<"x">>), text |-> JStr(<<"y">>)])
    /\ reply = JStr(<<"x">>)

-----------------------------------------------------------------------------
(* Vocabulary of the claims *)

Started(s) == sends[s].pc # "Idle"
InProgress(s) == sends[s].pc \in {"Attempting", "RetryWait"}
Terminal(s) == sends[s].pc \in {"Success", "Exhausted"}
Outstanding(s) == Len(sends[s].requests) - sends[s].failed - sends[s].bots
BotEntries == { i \in 1..Len(messageHistory) : messageHistory[i].type = "bot" }

(* C1: a send whose every attempt fails makes exactly maxRetries + 1       *)
(* requests, never more and never fewer, and then ends Exhausted.          *)
C1_ExactRequests ==
    \A s \in SendIds :
        /\ Len(sends[s].requests) <= maxRetries + 1
        /\ (Started(s) /\ sends[s].failed = Len(sends[s].requests)
                /\ sends[s].pc # "RetryWait")
              => (sends[s].pc = "Exhausted" /\ Len(sends[s].requests) = maxRetries + 1)
        /\ sends[s].pc = "Exhausted"
              => (sends[s].failed = maxRetries + 1
                    /\ Len(sends[s].requests) = maxRetries + 1)

\* with maxRetries = 3 a send has failed 4 times, made 4 requests and is Exhausted
C1_Witness ==
    /\ maxRetries = CONFIG_maxRetries
    /\ \E s \in SendIds :
        /\ sends[s].pc = "Exhausted"
        /\ sends[s].failed = 4
        /\ Len(sends[s].requests) = 4

(* C2: from the start of a send until Success or Exhausted, isLoading is   *)
(* true: while a request of any attempt is outstanding and during every    *)
(* backoff wait.                                                           *)
C2_BusyWhileInProgress ==
    \A s \in SendIds : InProgress(s) => isLoading

(* C3: at most one logical send is in progress at any time.                *)
C3_SingleFlight ==
    Cardinality({ s \in SendIds : InProgress(s) }) <= 1

(* C4: the wait after the i-th failed attempt is retryDelay * i, for every *)
(* i from 1 to maxRetries; no wait follows the final failed attempt.       *)
C4_LinearBackoff ==
    \A s \in SendIds :
        /\ \A i \in 1..Len(sends[s].waits) : sends[s].waits[i] = CONFIG_retryDelay * i
        /\ Len(sends[s].waits) <= maxRetries
        /\ sends[s].pc = "RetryWait" => Len(sends[s].waits) = sends[s].failed
        /\ sends[s].pc = "Attempting" => Len(sends[s].waits) = sends[s].failed
        /\ sends[s].pc = "Exhausted" =>
              /\ Len(sends[s].waits) = maxRetries
              /\ Len(sends[s].waits) = sends[s].failed - 1

\* an Exhausted send under maxRetries = 3 has waited 1000, 2000, 3000
C4_Witness ==
    \E s \in SendIds :
        /\ sends[s].pc = "Exhausted"
        /\ sends[s].waits = <<1000, 2000, 3000>>

(* C5: a transport failure, a non-success status and a decoded response    *)
(* with no usable reply each count as one failed attempt, append no bot    *)
(* message, and lead to a retry iff fewer than maxRetries retries have     *)
(* been made.                                                              *)
C5_SameRetryPath ==
    [][\A s \in SendIds :
        /\ sends'[s].failed # sends[s].failed =>
              /\ sends[s].pc = "Attempting"
              /\ sends'[s].failed = sends[s].failed + 1
              /\ messageHistory' = messageHistory
              /\ sends'[s].bots = sends[s].bots
              /\ (sends'[s].pc = "RetryWait") <=> (sends[s].retryCount < maxRetries)
              /\ (sends'[s].pc = "Exhausted") <=> ~(sends[s].retryCount < maxRetries)
        /\ (sends[s].pc = "Attempting" /\ sends'[s].pc # "Attempting") =>
              \/ sends'[s].failed = sends[s].failed + 1
                    /\ sends'[s].cause \in {"TransportError", "HttpError", "SyntaxError",
                                            "TypeError", "EmptyResponse"}
              \/ sends'[s].pc = "Success" /\ Truthy(sends'[s].got)
      ]_vars

\* two sends wait for a retry, one after a non-success status and one after
\* an empty reply that was its second failed attempt
C5_Witness ==
    \E s, u \in SendIds :
        /\ sends[s].pc = "RetryWait" /\ sends[s].cause = "HttpError"
        /\ sends[u].pc = "RetryWait" /\ sends[u].cause = "EmptyResponse"
        /\ sends[u].failed = 2

(* C6: showToast is called exactly once for a send whose maxRetries + 1    *)
(* attempts all failed, never before the final allowed attempt has failed, *)
(* and never for a send in which an attempt succeeded.                     *)
C6_ToastOnlyAfterExhaustion ==
    /\ \A s \in SendIds :
        /\ sends[s].toasts = (IF sends[s].pc = "Exhausted" THEN 1 ELSE 0)
        /\ sends[s].toasts > 0 =>
              /\ sends[s].failed = maxRetries + 1
              /\ sends[s].bots = 0
        /\ sends[s].bots > 0 => sends[s].toasts = 0
    /\ toastVisible => \E s \in SendIds : sends[s].pc = "Exhausted"
    /\ hideTimers <= Cardinality({ s \in SendIds : sends[s].pc = "Exhausted" })

\* a send is Exhausted after retries and its toast is on screen
C6_Witness ==
    /\ maxRetries > 0
    /\ toastVisible
    /\ \E s \in SendIds : sends[s].pc = "Exhausted" /\ sends[s].toasts = 1

(* C7: assuming every request settles and every backoff timer fires, a     *)
(* started send eventually reaches Success or Exhausted and stays there,   *)
(* following only Idle -> Attempting -> Success | RetryWait -> Attempting  *)
(* | Exhausted.                                                            *)
Transitions ==
    { <<"Idle", "Attempting">>, <<"Attempting", "Success">>,
      <<"Attempting", "RetryWait">>, <<"RetryWait", "Attempting">>,
      <<"Attempting", "Exhausted">> }

C7_SendTerminates ==
    /\ [][\A s \in SendIds :
            sends'[s].pc # sends[s].pc => <<sends[s].pc, sends'[s].pc>> \in Transitions
         ]_vars
    /\ [][\A s \in SendIds : Terminal(s) => sends'[s].pc = sends[s].pc]_vars
    /\ \A s \in SendIds : Started(s) ~> Terminal(s)

\* one send has ended Success after a retry and another has ended Exhausted
C7_Witness ==
    \E s, u \in SendIds :
        /\ sends[s].pc = "Success" /\ sends[s].failed > 0
        /\ sends[u].pc = "Exhausted"

(* C8: at most one request of a send is outstanding at any time, and the   *)
(* request of attempt k+1 is issued only after attempt k has failed and    *)
(* the backoff wait that follows it has elapsed.                           *)
C8_SequentialAttempts ==
    /\ \A s \in SendIds :
        /\ Outstanding(s) = (IF sends[s].pc = "Attempting" THEN 1 ELSE 0)
        /\ sends[s].pc = "Attempting" =>
              /\ Len(sends[s].requests) = sends[s].failed + 1
              /\ Len(sends[s].waits) = sends[s].failed
              /\ sends[s].await # "delay"
        /\ sends[s].pc = "RetryWait" =>
              /\ Len(sends[s].requests) = sends[s].failed
              /\ Len(sends[s].waits) = sends[s].failed
              /\ sends[s].await = "delay"
    /\ [][\A s \in SendIds :
            Len(sends'[s].requests) > Len(sends[s].requests) =>
                /\ Len(sends'[s].requests) = Len(sends[s].requests) + 1
                /\ Outstanding(s) = 0
                /\ sends[s].pc \in {"Idle", "RetryWait"}
                /\ sends[s].pc = "RetryWait" => sends[s].await = "delay"
         ]_vars

\* the request of the third attempt is outstanding after two failures and two waits
C8_Witness ==
    \E s \in SendIds :
        /\ sends[s].pc = "Attempting"
        /\ Len(sends[s].requests) = 3
        /\ sends[s].failed = 2
        /\ Len(sends[s].waits) = 2

(* C10: once an attempt yields a non-empty reply, exactly one bot message  *)
(* carrying that reply is appended for the turn, no further request or     *)
(* backoff wait of that send happens, and no failure notification is shown *)
(* for it.                                                                 *)
C10_SuccessIsTerminal ==
    /\ [](\A s \in SendIds :
            /\ sends[s].bots > 0 =>
                  /\ sends[s].pc = "Success"
                  /\ sends[s].bots = 1
                  /\ sends[s].toasts = 0
                  /\ Truthy(sends[s].got)
                  /\ \E i \in BotEntries : messageHistory[i].content = sends[s].got
            /\ sends[s].pc = "Success" => sends[s].bots = 1)
    /\ [](Cardinality(BotEntries) = Cardinality({ s \in SendIds : sends[s].pc = "Success" }))
    /\ [][\A s \in SendIds :
            sends[s].pc = "Success" =>
                /\ sends'[s] = sends[s]
                /\ \A i \in 1..Len(messageHistory) :
                      i <= Len(messageHistory') /\ messageHistory'[i] = messageHistory[i]
         ]_vars

\* a send succeeded on its second attempt: one bot message with its reply
C10_Witness ==
    \E s \in SendIds :
        /\ sends[s].pc = "Success"
        /\ sends[s].failed = 1
        /\ Len(sends[s].requests) = 2
        /\ \E i \in BotEntries : messageHistory[i].content = sends[s].got

(* C14: the retry delay before attempt k (1-indexed, k >= 2) is            *)
(* retryDelay * k.  The code waits retryDelay * (k - 1) before attempt k,  *)
(* which is the amended statement.                                         *)
C14_DelayIsBaseTimesK ==
    \A s \in SendIds : \A k \in 2..Len(sends[s].requests) :
        sends[s].waits[k - 1] = CONFIG_retryDelay * k

C14_DelayIsBaseTimesKMinus1 ==
    \A s \in SendIds :
        /\ \A k \in 2..Len(sends[s].requests) :
              /\ k - 1 <= Len(sends[s].waits)
              /\ sends[s].waits[k - 1] = CONFIG_retryDelay * (k - 1)
        /\ sends[s].pc = "RetryWait" =>
              sends[s].waits[Len(sends[s].requests)]
                  = CONFIG_retryDelay * ((Len(sends[s].requests) + 1) - 1)

\* attempt 4 has been issued; the wait before it was 3000
C14_Witness ==
    \E s \in SendIds :
        /\ Len(sends[s].requests) = 4
        /\ sends[s].waits[3] = 3000

(* C17: messageHistory is append-only: no entry is removed, reordered or   *)
(* modified; each accepted submit appends one user entry before any        *)
(* request of its send, a turn's user entry precedes its bot entry, and a  *)
(* turn that ends Exhausted has a user entry and no bot entry.             *)
UserEntries == { i \in 1..Len(messageHistory) : messageHistory[i].type = "user" }

C17_AppendOnlyHistory ==
    /\ [][/\ Len(messageHistory') \in {Len(messageHistory), Len(messageHistory) + 1}
          /\ \A i \in 1..Len(messageHistory) : messageHistory'[i] = messageHistory[i]
          /\ nsends' # nsends =>
                /\ Len(messageHistory') = Len(messageHistory) + 1
                /\ messageHistory'[Len(messageHistory')].type = "user"
         ]_vars
    /\ [](\A s \in SendIds :
            /\ Len(sends[s].requests) > 0 =>
                  /\ sends[s].userAt \in UserEntries
                  /\ messageHistory[sends[s].userAt].content = JStr(sends[s].message)
            /\ sends[s].pc = "Success" =>
                  /\ sends[s].botAt \in BotEntries
                  /\ sends[s].userAt < sends[s].botAt
                  /\ messageHistory[sends[s].botAt].content = sends[s].got
            /\ sends[s].pc \in {"Attempting", "RetryWait", "Exhausted"} =>
                  sends[s].botAt = 0
            /\ \A u \in SendIds :
                  (s < u /\ Started(u)) => sends[s].userAt < sends[u].userAt)
    /\ [](Cardinality(UserEntries) = nsends)
    /\ [](Len(messageHistory)
            = nsends + Cardinality({ s \in SendIds : sends[s].pc = "Success" }))

\* one turn ended Exhausted and left only its user entry, the other succeeded
C17_Witness ==
    \E s, u \in SendIds :
        /\ sends[s].pc = "Exhausted" /\ sends[s].botAt = 0 /\ sends[s].userAt > 0
        /\ sends[u].pc = "Success" /\ sends[u].userAt < sends[u].botAt
        /\ Len(messageHistory) = 3

(* C19: whenever a send has reached Success or Exhausted and no other send *)
(* is in progress, isLoading is false and the typing indicator is hidden.  *)
C19_BusyReleased ==
    ((\E s \in SendIds : Terminal(s)) /\ (\A s \in SendIds : ~InProgress(s)))
        => (~isLoading /\ ~typingVisible)

\* a send that went through a retry is over, none is in progress, the flag is down
C19_Witness ==
    /\ \E s \in SendIds : Terminal(s) /\ sends[s].failed > 0
    /\ \A s \in SendIds : ~InProgress(s)
    /\ ~isLoading

(* C16: all attempts of one send carry the same request body: the message  *)
(* text of the send and the page's sessionId; sessionId does not change    *)
(* while the page lives, a reload takes the stored id again, and a new id  *)
(* is created only when none is stored (after clearHistory).               *)
C16_SameBodyEveryAttempt ==
    /\ [](\A s \in SendIds : \A k \in 1..Len(sends[s].requests) :
             /\ sends[s].requests[k] = sends[s].requests[1]
             /\ sends[s].requests[k].message = sends[s].message
             /\ sends[s].requests[k].sessionId = sessionId)
    /\ [](storedSessionId = JStr(sessionId))
    /\ [][/\ loads' = loads => sessionId' = sessionId
          /\ sessionId' # sessionId =>
                /\ generated' = generated + 1
                /\ sessionId' = FreshId(generated')
                /\ storedHistory' = NoItem
          /\ generated' = generated => sessionId' = sessionId
         ]_vars

\* after a reload the id is still the first one, and a send has retried under it
C16_Witness ==
    /\ loads >= 1
    /\ generated = 1
    /\ \E s \in SendIds :
          /\ Len(sends[s].requests) >= 3
          /\ sends[s].message = <<"b">>

(* C18: the item stored under 'magomar_history' is the serialization of    *)
(* messageHistory as of the last write that succeeded (of the whole list   *)
(* when every write succeeded); at the next init restoreMessageHistory     *)
(* makes messageHistory the list that was saved last, in the same order,   *)
(* and leaves the stored item as it is.                                    *)
C18_StoredMirrorsHistory ==
    /\ [](storedHistory # NoItem =>
            \E n \in 1..Len(messageHistory) :
                storedHistory = stringify(SubSeq(messageHistory, 1, n)))
    /\ [][/\ (loads' = loads /\ storedHistory' # storedHistory) =>
                storedHistory' = stringify(messageHistory')
          /\ (loads' # loads /\ generated' = generated) =>
                /\ storedHistory' = storedHistory
                /\ Len(messageHistory') <= Len(messageHistory)
                /\ messageHistory' = SubSeq(messageHistory, 1, Len(messageHistory'))
                /\ storedHistory # NoItem => stringify(messageHistory') = storedHistory
                /\ storedHistory = NoItem => messageHistory' = <<>>
                /\ storedHistory = stringify(messageHistory) =>
                      messageHistory' = messageHistory
         ]_vars

\* a history with a user and a bot entry has been restored by a reload
C18_Witness ==
    /\ loads >= 1
    /\ \A s \in SendIds : sends[s].pc \in {"Idle", "Unloaded"}
    /\ Len(messageHistory) >= 2
    /\ \E i \in 1..Len(messageHistory) : messageHistory[i].type = "bot"
    /\ storedHistory = stringify(messageHistory)

(* C20: a submit that handleSubmit turns down (empty or whitespace-only    *)
(* input, or isLoading true) issues no request and leaves messageHistory,  *)
(* the stored history, isLoading and the input text as they were; a submit *)
(* is accepted only when the input has text and isLoading is false.        *)
C20_RejectedSubmitChangesNothing ==
    [][/\ rejected' # rejected =>
            /\ trim(inputValue) = <<>> \/ isLoading
            /\ sends' = sends
            /\ nsends' = nsends
            /\ messageHistory' = messageHistory
            /\ storedHistory' = storedHistory
            /\ isLoading' = isLoading
            /\ inputValue' = inputValue
       /\ nsends' # nsends => (trim(inputValue) # <<>> /\ ~isLoading)
      ]_vars

\* a submit was turned down while a request was outstanding and text was typed
C20_Witness ==
    /\ rejected = 1
    /\ isLoading
    /\ inputValue = <<"a">>
    /\ \E s \in SendIds : InProgress(s) /\ sends[s].message = <<"b">>

-----------------------------------------------------------------------------
(* Claims about formatMessage, under SpecFormat *)

\* pat occurs in s at position i
At(s, i, pat) == i >= 1 /\ i + Len(pat) - 1 <= Len(s) /\ SubSeq(s, i, i + Len(pat) - 1) = pat

\* the tags the formatter writes, and the escaped forms of & < >
FormatterTags ==
    { P_OPEN, P_CLOSE, BR, LI_OPEN, LI_CLOSE, UL_OPEN, UL_CLOSE, STRONG_OPEN, STRONG_CLOSE,
      TABLE_OPEN, TABLE_CLOSE, TR_OPEN, TR_CLOSE,
      <<"<", "t", "h", ">">>, <<"<", "/", "t", "h", ">">>, <<"<", "t", "d", ">">>, <<"<", "/", "t", "d", ">">> }
Entities == { <<"&", "a", "m", "p", ";">>, <<"&", "l", "t", ";">>, <<"&", "g", "t", ";">> }

(* C11: the output of formatMessage holds no unescaped <, > or & of the    *)
(* text: every < opens and every > closes one of the formatter's own tags  *)
(* (p, br, li, ul, strong, table, tr, th, td), and every & starts one of   *)
(* the escaped forms of the three characters.                              *)
C11_OutputIsEscaped ==
    formatted # NotFormatted =>
        \A i \in 1..Len(formatted) :
            /\ formatted[i] = "<" => \E tag \in FormatterTags : At(formatted, i, tag)
            /\ formatted[i] = ">" =>
                  \E tag \in FormatterTags : At(formatted, i - Len(tag) + 1, tag)
            /\ formatted[i] = "&" => \E e \in Entities : At(formatted, i, e)

\* a text with all three characters has been formatted
C11_Witness ==
    /\ formatInput = <<"<", "a", ">", "&">>
    /\ formatted = <<"<", "p", ">", "&", "l", "t", ";", "a", "&", "g", "t", ";", "&", "a", "m", "p", ";", "<", "/", "p", ">">>

(* C12: k >= 1 single-line dash paragraphs separated by blank lines come   *)
(* out as one list block holding the k items in the order of the input.    *)
C12_OneListBlock ==
    \A items \in UNION { [1..n -> ListItems] : n \in 1..MaxParas } :
        (/\ formatted # NotFormatted
         /\ formatInput = joinWith([n \in 1..Len(items) |-> DashParagraph(items[n])],
                                   BLANKLINE))
        => formatted = UL_OPEN
                       \o join([n \in 1..Len(items) |-> LI_OPEN \o items[n] \o LI_CLOSE])
                       \o UL_CLOSE

\* the three items of "- a\n\n- b\n\n- c" in one list
C12_Witness ==
    /\ formatInput = <<"-", " ", "a", "\n", "\n", "-", " ", "b", "\n", "\n", "-", " ", "c">>
    /\ formatted = <<"<", "u", "l", ">", "<", "l", "i", ">", "a", "<", "/", "l", "i", ">", "<", "l", "i", ">", "b", "<", "/", "l", "i", ">", "<", "l", "i", ">", "c", "<", "/", "l", "i", ">", "<", "/", "u", "l", ">">>

(* C13: for the lines "a|b", "---|---", "1|2" the separator line is        *)
(* dropped, the first line becomes a header row with the cells a, b and    *)
(* the third a body row with the cells 1, 2.                               *)
C13_TableOfThreeLines ==
    (/\ formatted # NotFormatted
     /\ formatInput = <<"a", "|", "b", "\n", "-", "-", "-", "|", "-", "-", "-", "\n", "1", "|", "2">>)
    => /\ includes(formatted, <<"<", "t", "r", ">", "<", "t", "h", ">", "a", "<", "/", "t", "h", ">", "<", "t", "h", ">", "b", "<", "/", "t", "h", ">", "<", "/", "t", "r", ">", "<", "t", "r", ">", "<", "t", "d", ">", "1", "<", "/", "t", "d", ">", "<", "t", "d", ">", "2", "<", "/", "t", "d", ">", "<", "/", "t", "r", ">">>)
       /\ ~includes(formatted, <<"-", "-", "-">>)

(* C15: a list block holds list items only: no paragraph lies inside a     *)
(* list block, and two list-item paragraphs with another paragraph between *)
(* them come out as two list blocks with the paragraph between the blocks. *)
C15_ListBlocksHoldItemsOnly ==
    formatted # NotFormatted =>
        /\ \A i \in 1..Len(formatted) :
              At(formatted, i, P_OPEN) =>
                  ~\E u \in 1..(i - 1) :
                      /\ At(formatted, u, UL_OPEN)
                      /\ indexOf(formatted, UL_CLOSE, u) > i
        /\ formatInput = <<"-", " ", "a", "\n", "\n", "m", "\n", "\n", "-", " ", "b">> =>
              formatted = <<"<", "u", "l", ">", "<", "l", "i", ">", "a", "<", "/", "l", "i", ">", "<", "/", "u", "l", ">", "<", "p", ">", "m", "<", "/", "p", ">", "<", "u", "l", ">", "<", "l", "i", ">", "b", "<", "/", "l", "i", ">", "<", "/", "u", "l", ">">>

====
